---- MODULE Spec2Model ----
(***************************************************************************)
(* A model of sknlp's generic training loop (sknlp/base.py: BaseModel and  *)
(* DeepSupervisedModel) and of its dataset indexing and encoding           *)
(* (sknlp/data/dataset.py: the NLPDataset family).                         *)
(*                                                                         *)
(* Three specifications share the module:                                  *)
(*   Spec      one model instance receiving a sequence of fit calls        *)
(*   SpecClip  _clip_gradient applied to freshly populated gradients       *)
(*   SpecData  construction of a dataset over a corpus and row access      *)
(* Python's None is the empty tuple <<>>, a present value x is <<x>>.      *)
(* Real numbers are exact: a rate is a fraction <<numerator, denominator>>.*)
(***************************************************************************)
EXTENDS Integers, Sequences, FiniteSets, TLC

\* ------------------------------------------------------------------ bounds
MaxEpochs == 5          \* n_epochs ranges over 0..MaxEpochs
MaxFreq == 3            \* lr_update_epochs and save_frequency range over 1..MaxFreq
MaxBatches == 2         \* batches the batch source yields per epoch: 0..MaxBatches
MaxParams == 3          \* parameters params_dict holds: 1..MaxParams
MaxGrad == 2            \* a gradient as backward leaves it: -MaxGrad..MaxGrad
MaxClip == 2            \* the clip argument: 0..MaxClip
MaxRows == 2            \* rows of a corpus: 0..MaxRows
MaxTextLen == 2         \* characters of a text field: 0..MaxTextLen
MaxLength == 2          \* the max_length argument: 1..MaxLength
MaxFits == 2            \* fit calls made on the one model instance
WorldSize == 2          \* workers of a distributed job: ranks 0..WorldSize-1

None == <<>>
Some(x) == <<x>>

VARIABLES
    \* --- the process (module level of base.py)
    hvd,          \* TRUE iff `import horovod.mxnet as hvd` succeeded (base.py:5-8)
    rank,         \* what hvd.rank() returns in this process
    \* --- the model instance (BaseModel.__init__)
    trained,      \* self._trained
    trainable,    \* len(self._trainable)
    \* --- the frame of the running fit/_fit call
    pc,           \* position of the call
    args,         \* the keyword arguments of fit, None when no call is running
    trainer,      \* the trainer _fit built: None or <<[kind, learning_rate]>>
    epoch,        \* loop variable of _fit
    num_batch,    \* loop counter of _one_epoch
    batchLog,     \* what _one_epoch did with its latest batch, None before the first
    failure,      \* the exception that ended the call, "" if none
    \* --- what the calls did, observed from outside
    buildCalls,   \* invocations of the _build hook on this instance, over all calls
    fits,         \* fit calls made so far
    trained0,     \* self._trained when the latest call started
    \* --- what the running call did (cleared when the call ends)
    broadcasts,   \* hvd.broadcast_parameters calls of this call
    stepLog,      \* one record per trainer.step of this call
    resets,       \* data_iter.reset() calls of this call
    saved,        \* the names handed to self.save, in order
    validated,    \* the epochs after which _valid_log ran
    log,          \* the logger.info records of this call
    \* --- _clip_gradient (SpecClip)
    cpc,          \* "ready", "grads" (backward has run), "clipped", "stepped"
    clip,         \* the clip argument of _fit
    grad,         \* parameter -> None or <<v>>, v its gradient (param.grad)
    grad0,        \* grad as backward left it, before _clip_gradient
    divided,      \* TRUE iff _clip_gradient evaluated clip / norm
    \* --- the dataset (SpecData)
    dpc,          \* "raw" (a row source, no dataset yet) or "built"
    corpus,       \* the row source: a sequence of rows, each a string
    ctor,         \* the constructor's arguments, None before construction
    ds,           \* the dataset instance, None before construction
    item          \* the outcome of the latest __getitem__, None if none

trainVars == <<hvd, rank, trained, trainable, pc, args, trainer, epoch, num_batch,
               batchLog, failure, buildCalls, fits, trained0, broadcasts, stepLog, resets,
               saved, validated, log>>

clipVars == <<cpc, clip, grad, grad0, divided>>

dataVars == <<dpc, corpus, ctor, ds, item>>

vars == <<trainVars, clipVars, dataVars>>

\* ------------------------------------------------------------- arithmetic
\* Fractions <<n, d>> with d > 0.
RMul(a, b) == <<a[1] * b[1], a[2] * b[2]>>
REq(a, b) == a[1] * b[2] = b[1] * a[2]

RECURSIVE RPow(_, _)
RPow(a, n) == IF n = 0 THEN <<1, 1>> ELSE RMul(a, RPow(a, n - 1))


\* ------------------------------------------------------------ _fit helpers
Rates == {<<1, 100>>}                    \* lr: 0.01
Factors == {<<1, 2>>, <<9, 10>>}          \* lr_update_factor: 0.5, and fit's default 0.9
Prefixes == {None, Some("ckpt")}          \* checkpoint: None or a prefix
SampleCounts == {1, 2}                    \* samples of one batch: a short last batch, a full one

FitArgs == [lr : Rates, n_epochs : 0..MaxEpochs, lr_update_factor : Factors,
            lr_update_epochs : 1..MaxFreq, checkpoint : Prefixes,
            save_frequency : 1..MaxFreq, multigpu : BOOLEAN,
            valid_dataset : BOOLEAN, batches : 0..MaxBatches]

A == args[1]
T == trainer[1]

\* base.py:74  `hvd is not None and multigpu`
UseDistributed(multigpu) == hvd /\ multigpu

\* base.py:86  `epoch % lr_update_epochs == 0 and epoch != 1`
UpdateLr(e, k) == e % k = 0 /\ e # 1

\* base.py:92  `hvd is None or (hvd is not None and hvd.rank() == 0)`
IsCoordinator == ~hvd \/ (hvd /\ rank = 0)

\* base.py:94  `checkpoint is not None and epoch % save_frequency == 0`
\*   (faulty variant: the cadence test left out)
ShouldSave_EveryEpoch(checkpoint, e, save_frequency) == checkpoint # None
ShouldSave(checkpoint, e, save_frequency) ==
    checkpoint # None /\ e % save_frequency = 0

\* base.py:280  `if not self._trained`
NeedsBuild == ~trained

\* base.py:161  `total_loss / num_batch` raises ZeroDivisionError when no batch ran
\*   (faulty variant: the division guarded, an empty epoch averages to 0)
AvgLossRaises_Guarded(n) == FALSE
AvgLossRaises(n) == n = 0

\* The decimal digits of a natural number, most significant first.
RECURSIVE Digits(_)
Digits(n) == IF n < 10 THEN <<n>> ELSE Append(Digits(n \div 10), n % 10)

RECURSIVE ZeroPad(_, _)
ZeroPad(digits, width) ==
    IF Len(digits) >= width THEN digits ELSE ZeroPad(<<0>> \o digits, width)

\* base.py:95  f'{checkpoint}-{epoch:04}': the prefix, a dash, the epoch in decimal
\* zero-padded to a minimum width of 4.
CheckpointWidth == 4
CheckpointName(checkpoint, e) ==
    [prefix |-> checkpoint[1], sep |-> "-", suffix |-> ZeroPad(Digits(e), CheckpointWidth)]

\* base.py:153  a progress record every 100 batches
ProgressEvery == 100

\* base.py:145-148  what the loop body does with one batch of `samples` samples:
\* the calls it makes, in order, and the weight `steps` it hands to trainer.step.
\*   (faulty variant: every step weighted as a single sample)
OneBatch_UnitStep(samples) ==
    [samples |-> samples,
     calls |-> <<"_forward", "backward", "_clip_gradient", "step">>,
     steps |-> 1]
OneBatch(samples) ==
    [samples |-> samples,
     calls |-> <<"_forward", "backward", "_clip_gradient", "step">>,
     steps |-> samples]

\* ------------------------------------------------------------------- Init
InitTrain ==
    /\ hvd \in BOOLEAN
    /\ rank \in 0..(WorldSize - 1)
    /\ (~hvd => rank = 0)
    /\ trained = FALSE
    /\ trainable = 0
    /\ pc = "idle"
    /\ args = None
    /\ trainer = None
    /\ epoch = 0
    /\ num_batch = 0
    /\ batchLog = None
    /\ failure = ""
    /\ buildCalls = 0
    /\ fits = 0
    /\ trained0 = FALSE
    /\ broadcasts = 0
    /\ stepLog = <<>>
    /\ resets = 0
    /\ saved = <<>>
    /\ validated = <<>>
    /\ log = <<>>

\* The parts of the state a specification does not move.
ClipIdle ==
    /\ cpc = "ready"
    /\ clip = 0
    /\ grad = <<>>
    /\ grad0 = <<>>
    /\ divided = FALSE

DataIdle ==
    /\ dpc = "raw"
    /\ corpus = <<>>
    /\ ctor = None
    /\ ds = None
    /\ item = None

Init == InitTrain /\ ClipIdle /\ DataIdle

\* ---------------------------------------------------------------- actions
\* DeepSupervisedModel.fit up to its call of _fit (base.py:272-290): the dataset
\* and dataloader hooks, and _build unless the instance is already trained.  What
\* _build registers in self._trainable is the subclass's: none or some.
Fit ==
    /\ pc = "idle"
    /\ fits < MaxFits
    /\ \E a \in FitArgs : args' = Some(a)
    /\ fits' = fits + 1
    /\ trained0' = trained
    /\ IF NeedsBuild
         THEN /\ buildCalls' = buildCalls + 1
              /\ \E n \in {0, 1} : trainable' = n
         ELSE UNCHANGED <<buildCalls, trainable>>
    /\ pc' = "_fit"
    /\ UNCHANGED <<hvd, rank, trained, trainer, epoch, num_batch, batchLog, failure,
                   broadcasts, stepLog, resets, saved, validated, log>>
    /\ UNCHANGED <<clipVars, dataVars>>

\* BaseModel._fit before its loop (base.py:70-84): the assertion, the choice of
\* trainer, and the loop's first test.
FitEnter ==
    /\ pc = "_fit"
    /\ IF trainable = 0
         THEN /\ failure' = "AssertionError"
              /\ pc' = "failed"
              /\ UNCHANGED <<trainer, broadcasts, epoch>>
         ELSE /\ IF UseDistributed(A.multigpu)
                   THEN /\ broadcasts' = broadcasts + 1
                        /\ trainer' = Some([kind |-> "distributed", learning_rate |-> A.lr])
                   ELSE /\ trainer' = Some([kind |-> "local", learning_rate |-> A.lr])
                        /\ UNCHANGED broadcasts
              /\ epoch' = 1
              /\ pc' = IF 1 <= A.n_epochs THEN "before_epoch" ELSE "done"
              /\ UNCHANGED failure
    /\ UNCHANGED <<hvd, rank, trained, trainable, args, num_batch, batchLog,
                   buildCalls, fits, trained0, stepLog, resets, saved, validated, log>>
    /\ UNCHANGED <<clipVars, dataVars>>

\* _before_epoch (base.py:85-89, 130-136) and the head of _one_epoch (139-143).
BeforeEpoch ==
    /\ pc = "before_epoch"
    /\ IF UpdateLr(epoch, A.lr_update_epochs)
         THEN LET new_lr == RMul(T.learning_rate, A.lr_update_factor) IN
              /\ trainer' = Some([T EXCEPT !.learning_rate = new_lr])
              /\ log' = Append(log, [kind |-> "lr", epoch |-> epoch])
         ELSE UNCHANGED <<trainer, log>>
    /\ num_batch' = 0
    /\ batchLog' = None
    /\ pc' = "one_epoch"
    /\ UNCHANGED <<hvd, rank, trained, trainable, args, epoch, failure, buildCalls,
                   fits, trained0, broadcasts, stepLog, resets, saved, validated>>
    /\ UNCHANGED <<clipVars, dataVars>>

\* One iteration of the batch loop (base.py:144-159): the batch's sample count,
\* forward and backward, _clip_gradient (its effect on the gradients is
\* ClipGradient, below), one trainer.step, the loss bookkeeping and the progress
\* record.  The batch source decides how many samples the batch holds.
BatchStep ==
    /\ pc = "one_epoch"
    /\ num_batch < A.batches
    /\ \E samples \in SampleCounts : batchLog' = Some(OneBatch(samples))
    /\ stepLog' = Append(stepLog, [epoch |-> epoch, lr |-> T.learning_rate,
                                    trainer |-> T.kind, resets |-> resets])
    /\ num_batch' = num_batch + 1
    /\ log' = IF (num_batch + 1) % ProgressEvery = 0
                THEN Append(log, [kind |-> "batch", epoch |-> epoch])
                ELSE log
    /\ UNCHANGED <<hvd, rank, trained, trainable, pc, args, trainer, epoch, failure,
                   buildCalls, fits, trained0, broadcasts, resets, saved, validated>>
    /\ UNCHANGED <<clipVars, dataVars>>

\* A hook called for a batch raises (base.py:146: _calculate_loss is the
\* subclass's; the base raises NotImplementedError at base.py:176).
BatchFail ==
    /\ pc = "one_epoch"
    /\ num_batch < A.batches
    /\ failure' = "HookError"
    /\ pc' = "failed"
    /\ UNCHANGED <<hvd, rank, trained, trainable, args, trainer, epoch, num_batch,
                   batchLog, buildCalls, fits, trained0, broadcasts, stepLog, resets,
                   saved, validated, log>>
    /\ UNCHANGED <<clipVars, dataVars>>

\* The batch source is exhausted: the tail of _one_epoch (base.py:160-161) and the
\* rest of _fit's loop body (base.py:91-97), then the loop's next test.
EpochEnd ==
    /\ pc = "one_epoch"
    /\ num_batch = A.batches
    /\ resets' = resets + 1
    /\ batchLog' = None
    /\ IF AvgLossRaises(num_batch)
         THEN /\ failure' = "ZeroDivisionError"
              /\ pc' = "failed"
              /\ UNCHANGED <<trained, log, saved, validated, epoch>>
         ELSE /\ trained' = TRUE
              /\ IF IsCoordinator
                   THEN /\ log' = Append(log, [kind |-> "train", epoch |-> epoch])
                        /\ saved' = IF ShouldSave(A.checkpoint, epoch, A.save_frequency)
                                      THEN Append(saved, CheckpointName(A.checkpoint, epoch))
                                      ELSE saved
                        /\ validated' = IF A.valid_dataset
                                          THEN Append(validated, epoch)
                                          ELSE validated
                   ELSE UNCHANGED <<log, saved, validated>>
              /\ epoch' = epoch + 1
              /\ pc' = IF epoch + 1 <= A.n_epochs THEN "before_epoch" ELSE "done"
              /\ UNCHANGED failure
    /\ UNCHANGED <<hvd, rank, trainable, args, trainer, num_batch, buildCalls, fits,
                   trained0, broadcasts, stepLog>>
    /\ UNCHANGED <<clipVars, dataVars>>

\* The call returns or its exception propagates to the caller: the frame is gone,
\* the instance keeps its fields.
Return ==
    /\ pc \in {"done", "failed"}
    /\ pc' = "idle"
    /\ args' = None
    /\ trainer' = None
    /\ epoch' = 0
    /\ num_batch' = 0
    /\ batchLog' = None
    /\ failure' = ""
    /\ broadcasts' = 0
    /\ stepLog' = <<>>
    /\ resets' = 0
    /\ saved' = <<>>
    /\ validated' = <<>>
    /\ log' = <<>>
    /\ UNCHANGED <<hvd, rank, trained, trainable, buildCalls, fits, trained0>>
    /\ UNCHANGED <<clipVars, dataVars>>

Next ==
    \/ Fit
    \/ FitEnter
    \/ BeforeEpoch
    \/ BatchStep
    \/ BatchFail
    \/ EpochEnd
    \/ Return

Spec == Init /\ [][Next]_vars


\* ========================================================= _clip_gradient
\* A gradient is a number n / sqrt(r), written <<n, r>>: backward leaves <<g, 1>>,
\* and a gradient scaled by clip / norm, norm = sqrt(N), is <<g * clip, N>>.  Each
\* parameter's gradient tensor holds one number, so (param.grad ** 2).sum() is its
\* square.  backward overwrites every gradient it computes, so _clip_gradient
\* reads gradients of the form <<g, 1>>; SpecClip follows one batch.
Params == 1..MaxParams
FreshGrads == {None} \cup {Some(<<g, 1>>) : g \in (0 - MaxGrad)..MaxGrad}

\* base.py:110-113  the loop that accumulates norm: the squared norm after the
\* first n parameters, parameters without a gradient skipped.
RECURSIVE NormSq(_, _)
NormSq(g, n) ==
    IF n = 0 THEN 0
    ELSE NormSq(g, n - 1) + (IF g[n] # None THEN g[n][1][1] * g[n][1][1] ELSE 0)

\* base.py:115  `norm > clip`, norm = sqrt(normsq) >= 0 and clip >= 0
\*   (faulty variant: `>=`)
NormExceeds_OrEquals(normsq, c) == normsq >= c * c
NormExceeds(normsq, c) == normsq > c * c

\* base.py:118  `param.grad[:] *= clip / norm`
Scaled(v, c, normsq) == <<v[1] * c, v[2] * normsq>>

\* base.py:116-118  the loop that rescales, parameters without a gradient skipped
ClippedGrads(g, c, normsq) ==
    [p \in DOMAIN g |-> IF g[p] # None THEN Some(Scaled(g[p][1], c, normsq)) ELSE None]

InitClip ==
    /\ cpc = "ready"
    /\ clip \in 0..MaxClip
    /\ grad = [p \in Params |-> None]
    /\ grad0 = [p \in Params |-> None]
    /\ divided = FALSE

\* _forward_backward (base.py:124-128): loss.backward() populates the gradients
\* of the parameters the loss depends on.
Backward ==
    /\ cpc = "ready"
    /\ \E g \in [Params -> FreshGrads] :
         /\ grad' = g
         /\ grad0' = g
    /\ divided' = FALSE
    /\ cpc' = "grads"
    /\ UNCHANGED clip
    /\ UNCHANGED <<trainVars, dataVars>>

\* _clip_gradient (base.py:105-118).
ClipGradient ==
    /\ cpc = "grads"
    /\ LET normsq == NormSq(grad, MaxParams) IN
         IF NormExceeds(normsq, clip)
           THEN /\ grad' = ClippedGrads(grad, clip, normsq)
                /\ divided' = (\E p \in Params : grad[p] # None)
           ELSE UNCHANGED <<grad, divided>>
    /\ cpc' = "clipped"
    /\ UNCHANGED <<clip, grad0>>
    /\ UNCHANGED <<trainVars, dataVars>>

\* trainer.step (base.py:148) consumes the gradients.
Step ==
    /\ cpc = "clipped"
    /\ cpc' = "stepped"
    /\ UNCHANGED <<clip, grad, grad0, divided>>
    /\ UNCHANGED <<trainVars, dataVars>>

TrainIdle ==
    /\ hvd = FALSE
    /\ rank = 0
    /\ trained = FALSE
    /\ trainable = 0
    /\ pc = "idle"
    /\ args = None
    /\ trainer = None
    /\ epoch = 0
    /\ num_batch = 0
    /\ batchLog = None
    /\ failure = ""
    /\ buildCalls = 0
    /\ fits = 0
    /\ trained0 = FALSE
    /\ broadcasts = 0
    /\ stepLog = <<>>
    /\ resets = 0
    /\ saved = <<>>
    /\ validated = <<>>
    /\ log = <<>>

NextClip ==
    \/ Backward
    \/ ClipGradient
    \/ Step

InitC == InitClip /\ TrainIdle /\ DataIdle

SpecClip == InitC /\ [][NextClip]_vars

\* ======================================================= claims: clipping
Present(g) == {p \in DOMAIN g : g[p] # None}

RECURSIVE SumSquares(_, _)
SumSquares(g, ps) ==
    IF ps = {} THEN 0
    ELSE LET p == CHOOSE q \in ps : TRUE
         IN  g[p][1][1] * g[p][1][1] + SumSquares(g, ps \ {p})

\* C7: with N the sum of the squares of the gradients present before the call:
\* if sqrt(N) <= clip (N = 0 included) every gradient is left as it was and no
\* division by the norm takes place; if sqrt(N) > clip every gradient present is
\* multiplied by clip / sqrt(N), so that the global norm becomes clip; a parameter
\* without a gradient adds nothing to N and still has none.
C7_ClipGradient ==
    cpc = "clipped" =>
        LET N == SumSquares(grad0, Present(grad0)) IN
        /\ \A p \in Params : (grad0[p] = None) <=> (grad[p] = None)
        /\ (N <= clip * clip) => (grad = grad0 /\ ~divided)
        /\ (N > clip * clip) =>
             /\ N > 0
             /\ \A p \in Present(grad0) :
                  grad[p][1] = <<grad0[p][1][1] * clip, N>>
             /\ SumSquares(grad, Present(grad)) = clip * clip * N

C7_Witness ==
    /\ cpc = "clipped"
    /\ clip = 1
    /\ grad0[1] = None
    /\ grad0[2] = Some(<<0 - 2, 1>>)
    /\ grad0[3] = Some(<<1, 1>>)
    /\ grad[2] = Some(<<0 - 2, 5>>)
    /\ grad[3] = Some(<<1, 5>>)
    /\ divided

\* ======================================================= claims: training
\* The call has built its trainer: it is in, or has left, the epoch loop.
InLoop == args # None /\ trainer # None

\* Epochs of the running call whose _one_epoch returned: the loop variable has
\* moved past them (it stays at the epoch in which a call failed).
EpochsDone == epoch - 1

CountKind(l, k) == Cardinality({i \in 1..Len(l) : l[i].kind = k})
StepsOf(e) == Cardinality({i \in 1..Len(stepLog) : stepLog[i].epoch = e})

RECURSIVE DecimalValue(_)
DecimalValue(digits) ==
    IF digits = <<>> THEN 0
    ELSE 10 * DecimalValue(SubSeq(digits, 1, Len(digits) - 1)) + digits[Len(digits)]

\* C1: every optimizer step of epoch e uses the rate lr * f^floor((e-1)/k), k the
\* decay cadence lr_update_epochs (0.01, 0.01, 0.005, 0.005, ... for f = 0.5, k = 2).
C1_RateSchedule ==
    \A i \in 1..Len(stepLog) :
        REq(stepLog[i].lr,
            RMul(A.lr, RPow(A.lr_update_factor,
                            (stepLog[i].epoch - 1) \div A.lr_update_epochs)))

C3_BuiltOnce == buildCalls = (IF fits = 0 THEN 0 ELSE 1)

\* C8: the epoch summary, the checkpoint and the validation log happen on the
\* coordinating process only: rank 0 when the run is distributed (multigpu asked
\* for and the communication layer present), the process itself, whatever its
\* rank, when it is not.
C8_Coordinating == IF hvd /\ A.multigpu THEN rank = 0 ELSE TRUE
C8_CoordinatorOnly ==
    InLoop =>
        IF C8_Coordinating
          THEN /\ CountKind(log, "train") = EpochsDone
               /\ (A.valid_dataset => Len(validated) = EpochsDone)
               /\ (A.checkpoint # None =>
                      Len(saved) = EpochsDone \div A.save_frequency)
          ELSE /\ CountKind(log, "train") = 0
               /\ validated = <<>>
               /\ saved = <<>>

\* C9: multigpu asked for without a communication layer: the run goes on with the
\* local trainer for every step and broadcasts nothing, and a log record has been
\* emitted by the time the first epoch begins.
C9_FallbackLogged ==
    (InLoop /\ A.multigpu /\ ~hvd) =>
        /\ T.kind = "local"
        /\ broadcasts = 0
        /\ \A i \in 1..Len(stepLog) : stepLog[i].trainer = "local"
        /\ (pc = "failed" => failure \in {"HookError", "ZeroDivisionError"})
        /\ ((pc = "before_epoch" /\ epoch = 1) => log # <<>>)

\* C10: a run whose batch source yields no batch fails in its first epoch, having
\* taken no optimizer step, left the trained flag as the call found it (false on
\* an untrained model), written no checkpoint and run no validation.
C10_EmptyRejected ==
    (InLoop /\ A.batches = 0) =>
        /\ (pc = "done" => A.n_epochs = 0)
        /\ (pc = "failed" => failure = "ZeroDivisionError" /\ epoch = 1)
        /\ stepLog = <<>>
        /\ trained = trained0
        /\ (~trained0 => ~trained)
        /\ saved = <<>>
        /\ validated = <<>>

C10_Witness ==
    /\ InLoop
    /\ A.batches = 0
    /\ failure = "ZeroDivisionError"
    /\ ~trained0
    /\ A.valid_dataset
    /\ A.checkpoint # None
    /\ A.save_frequency = 1
    /\ IsCoordinator


\* The running call's batch source yields at least one batch per epoch and nothing
\* the call has run so far has raised.
RunsClean == InLoop /\ A.batches >= 1 /\ failure = ""

Occurrences(calls, name) == {i \in 1..Len(calls) : calls[i] = name}

\* Each of the two calls is made exactly once, `first` before `second`.
Precedes(calls, first, second) ==
    /\ Cardinality(Occurrences(calls, first)) = 1
    /\ Cardinality(Occurrences(calls, second)) = 1
    /\ \A i \in Occurrences(calls, first) :
          \A j \in Occurrences(calls, second) : i < j

\* C11: a run over a source of B >= 1 batches per epoch in which nothing fails goes
\* through the epochs 1..n_epochs in order and ends after the last: it can always
\* take its next step until then, and when it is done it has taken n_epochs * B
\* optimizer steps, B in each epoch.  Every batch is run forward, then backward,
\* then clipped, then stepped exactly once with its sample count as weight.  The
\* source is reset once per epoch, after the epoch's last step and before the next
\* epoch's first.  The run sets the trained flag when its first epoch completes
\* (until then the flag is as the call found it: false on an untrained model) and
\* the flag is true from then on.
C11_RunToCompletion ==
    RunsClean =>
        /\ pc \in {"before_epoch", "one_epoch", "done"}
        /\ epoch \in 1..(A.n_epochs + 1)
        /\ (pc = "done") = (epoch = A.n_epochs + 1)
        /\ (pc # "done" => ENABLED (BeforeEpoch \/ BatchStep \/ EpochEnd))
        /\ Len(stepLog) = EpochsDone * A.batches
                            + (IF pc = "one_epoch" THEN num_batch ELSE 0)
        /\ \A i \in 1..Len(stepLog) :
              /\ stepLog[i].epoch = ((i - 1) \div A.batches) + 1
              /\ stepLog[i].resets = stepLog[i].epoch - 1
        /\ resets = EpochsDone
        /\ (pc = "done" =>
              /\ Len(stepLog) = A.n_epochs * A.batches
              /\ \A e \in 1..A.n_epochs : StepsOf(e) = A.batches
              /\ resets = A.n_epochs)
        /\ ((pc = "one_epoch" /\ num_batch >= 1) => batchLog # None)
        /\ (batchLog # None =>
              /\ Precedes(batchLog[1].calls, "_forward", "backward")
              /\ Precedes(batchLog[1].calls, "backward", "_clip_gradient")
              /\ Precedes(batchLog[1].calls, "_clip_gradient", "step")
              /\ batchLog[1].steps = batchLog[1].samples)
        /\ (~trained0 => (trained <=> EpochsDone >= 1))
        /\ (EpochsDone >= 1 => trained)

C11_Witness ==
    /\ RunsClean
    /\ pc = "done"
    /\ ~trained0
    /\ trained
    /\ A.n_epochs = 3
    /\ A.batches = 2
    /\ Len(stepLog) = 6
    /\ resets = 3


\* ================================================== datasets (dataset.py)
\* A string is the sequence of its code points.
Tab == 9                \* '\t'
Pipe == 124             \* '|'

\* str.split(sep): the pieces between the occurrences of sep, empty pieces kept.
RECURSIVE Split(_, _)
Split(s, sep) ==
    IF \A i \in 1..Len(s) : s[i] # sep
      THEN <<s>>
      ELSE LET i == CHOOSE j \in 1..Len(s) :
                        s[j] = sep /\ \A k \in 1..(j - 1) : s[k] # sep
           IN  <<SubSeq(s, 1, i - 1)>> \o Split(SubSeq(s, i + 1, Len(s)), sep)

\* sep.join(parts), parts not empty.
RECURSIVE Join(_, _)
Join(parts, sep) ==
    IF Len(parts) = 1 THEN parts[1]
    ELSE parts[1] \o <<sep>> \o Join(Tail(parts), sep)

\* InMemoryDataset.__init__: '\t'.join(row) of a (text, label) pair.
Record(text, label) == Join(<<text, label>>, Tab)

\* NLPDataset._split_row
SplitRow(row) == Split(row, Tab)

\* s[:n] for n >= 0
Prefix(s, n) == SubSeq(s, 1, IF n < Len(s) THEN n ELSE Len(s))

\* The default segmenter, `list`: one token per character.
Segmenter(text) == [i \in 1..Len(text) |-> <<text[i]>>]

\* collections.Counter: the keys in insertion order, and their counts.
EmptyCounter == [keys |-> <<>>, counts |-> <<>>]

CounterAdd(c, w) ==
    IF \E i \in 1..Len(c.keys) : c.keys[i] = w
      THEN LET i == CHOOSE j \in 1..Len(c.keys) : c.keys[j] = w
           IN  [c EXCEPT !.counts[i] = @ + 1]
      ELSE [keys |-> Append(c.keys, w), counts |-> Append(c.counts, 1)]

\* Counter.update(words)
RECURSIVE CounterUpdate(_, _)
CounterUpdate(c, words) ==
    IF words = <<>> THEN c
    ELSE CounterUpdate(CounterAdd(c, Head(words)), Tail(words))

RemoveAt(q, i) == SubSeq(q, 1, i - 1) \o SubSeq(q, i + 1, Len(q))

\* `del counter[k]`: Counter.__delitem__ does nothing when k is not a key.
CounterDel(c, k) ==
    IF \E i \in 1..Len(c.keys) : c.keys[i] = k
      THEN LET i == CHOOSE j \in 1..Len(c.keys) : c.keys[j] = k
           IN  [keys |-> RemoveAt(c.keys, i), counts |-> RemoveAt(c.counts, i)]
      ELSE c

\* Python's order on strings: by code point, a proper prefix first.
RECURSIVE LexLess(_, _)
LexLess(a, b) ==
    IF b = <<>> THEN FALSE
    ELSE IF a = <<>> THEN TRUE
    ELSE IF Head(a) # Head(b) THEN Head(a) < Head(b)
    ELSE LexLess(Tail(a), Tail(b))

RECURSIVE Insert(_, _)
Insert(sorted, x) ==
    IF sorted = <<>> THEN <<x>>
    ELSE IF LexLess(x, Head(sorted)) THEN <<x>> \o sorted
    ELSE <<Head(sorted)>> \o Insert(Tail(sorted), x)

\* list.sort() of a list of strings
\*   (faulty variant: the sort left out, the keys stay in insertion order)
SortLabels_Unsorted(l) == l
RECURSIVE SortLabels(_)
SortLabels(l) ==
    IF l = <<>> THEN <<>>
    ELSE Insert(SortLabels(SubSeq(l, 1, Len(l) - 1)), l[Len(l)])

SeqRange(q) == {q[i] : i \in 1..Len(q)}

\* dict(zip(label_list, range(len(label_list)))): a later pair wins for a key.
ZipIndex(label_list) ==
    [l \in SeqRange(label_list) |->
        (CHOOSE i \in 1..Len(label_list) :
            label_list[i] = l /\ \A j \in (i + 1)..Len(label_list) : label_list[j] # l) - 1]

\* {v: k for k, v in label2idx.items()}, label2idx one-to-one
Inverse(label2idx) ==
    [v \in {label2idx[k] : k \in DOMAIN label2idx} |->
        CHOOSE k \in DOMAIN label2idx : label2idx[k] = v]

\* The constructor's loop over the rows (dataset.py:170-179): the token counter,
\* the per-row token counts and the label counter after the first n rows.
RECURSIVE Scan(_, _, _, _)
Scan(rows, n, build_vocab, build_labels) ==
    IF n = 0
      THEN [token_counter |-> EmptyCounter, text_lengths |-> <<>>,
            label_counter |-> EmptyCounter]
      ELSE LET acc == Scan(rows, n - 1, build_vocab, build_labels)
               fields == SplitRow(rows[n])
               text == fields[1]
               label == fields[2]
               words == Segmenter(text)
           IN  [token_counter |-> IF build_vocab
                                    THEN CounterUpdate(acc.token_counter, words)
                                    ELSE acc.token_counter,
                text_lengths |-> IF build_vocab
                                   THEN Append(acc.text_lengths, Len(words))
                                   ELSE acc.text_lengths,
                label_counter |-> IF build_labels
                                    THEN CounterUpdate(acc.label_counter, Split(label, Pipe))
                                    ELSE acc.label_counter]

Kinds == {"SupervisedNLPDataset", "ClassifyDataset", "SequenceTagDataset"}

\* SupervisedNLPDataset.__init__ (dataset.py:151-191), and ClassifyDataset's
\* list of binarizer classes (dataset.py:230-232).
NewDataset(rows, c) ==
    LET scan == Scan(rows, Len(rows), c.vocab = None, c.label2idx = None)
        label_counter == CounterDel(scan.label_counter, <<>>)
        label_list == SortLabels(label_counter.keys)
        label2idx == IF c.label2idx = None THEN ZipIndex(label_list) ELSE c.label2idx[1]
        idx2label == Inverse(label2idx)
    IN  [kind |-> c.kind,
         max_length |-> c.max_length,
         vocab |-> IF c.vocab = None THEN scan.token_counter ELSE c.vocab[1],
         text_lengths |-> scan.text_lengths,
         label2idx |-> label2idx,
         idx2label |-> idx2label,
         classes |-> IF c.kind = "ClassifyDataset"
                       THEN [i \in 1..Cardinality(DOMAIN label2idx) |-> idx2label[i - 1]]
                       ELSE <<>>]

\* NLPDataset.preprocess_text (dataset.py:115-116): the tokens handed to the
\* Vocab lookup.
PreprocessText(d, text) == Segmenter(Prefix(text, d.max_length))

KeyError == [status |-> "KeyError", label |-> <<>>]
Encoded(l) == [status |-> "ok", label |-> l]

\* [self._label2idx[l] for l in labels]
\*   (faulty variant: labels that are no key are skipped)
Lookup_SkipUnseen(d, labels) ==
    LET seen == SelectSeq(labels, LAMBDA l : l \in DOMAIN d.label2idx)
    IN  {Encoded([i \in 1..Len(seen) |-> d.label2idx[seen[i]]])}
Lookup(d, labels) ==
    IF \A i \in 1..Len(labels) : labels[i] \in DOMAIN d.label2idx
      THEN {Encoded([i \in 1..Len(labels) |-> d.label2idx[labels[i]]])}
      ELSE {KeyError}

\* MultiLabelBinarizer(classes).fit_transform([labels])[0].tolist(): one 0/1 entry
\* per class.  A label that is no class is the library's to handle: it raises
\* KeyError, or (scikit-learn 0.20 and later) leaves the label out with a warning.
Binarize(d, labels) ==
    LET vector == [i \in 1..Len(d.classes) |->
                      IF d.classes[i] \in SeqRange(labels) THEN 1 ELSE 0]
    IN  IF SeqRange(labels) \subseteq SeqRange(d.classes)
          THEN {Encoded(vector)}
          ELSE {KeyError, Encoded(vector)}

\* SequenceTagDataset.preprocess_label: label.split('|')[:self._max_length]
TagLabels(d, label) == Prefix(Split(label, Pipe), d.max_length)

\* preprocess_label of the three classes (dataset.py:202-203, 234-235, 243-246):
\* the outcomes it can have.
PreprocessLabel(d, label) ==
    CASE d.kind = "SupervisedNLPDataset" -> Lookup(d, Split(label, Pipe))
      [] d.kind = "ClassifyDataset" -> Binarize(d, Split(label, Pipe))
      [] d.kind = "SequenceTagDataset" -> Lookup(d, TagLabels(d, label))

\* ---------------------------------------------------------------- inputs
\* Label fields over the labels '1' and '2': '', '1', '2', '1|2', '2|1', '1|1',
\* '1|', '|2' and '1||2'.
LabelFields ==
    { <<>>, <<49>>, <<50>>, <<49, Pipe, 50>>, <<50, Pipe, 49>>, <<49, Pipe, 49>>,
      <<49, Pipe>>, <<Pipe, 50>>, <<49, Pipe, Pipe, 50>> }
Texts == UNION {[1..n -> {97, 98}] : n \in 0..MaxTextLen}  \* over 'a', 'b'

LabelRows == {Record(<<97, 98>>, f) : f \in LabelFields}
TextRows == {Record(t, <<49>>) : t \in Texts}

\* The corpus of the documented scenario: labels '1|2', '1|2|3', '3|1'.
ScenarioCorpus ==
    << Record(<<22823, 21483, 22909>>, <<49, Pipe, 50>>),
       Record(<<22823, 23478, 22909>>, <<49, Pipe, 50, Pipe, 51>>),
       Record(<<22909, 21385, 23475>>, <<51, Pipe, 49>>) >>

\* Labels whose lexical order differs from their order of appearance and from
\* their numeric order: '2', '10', '1'.
OrderCorpus ==
    << Record(<<97>>, <<50>>),
       Record(<<97>>, <<49, 48, Pipe, 50>>),
       Record(<<98>>, <<49>>) >>

Corpora ==
    UNION {[1..n -> LabelRows] : n \in 0..MaxRows}
    \cup UNION {[1..n -> TextRows] : n \in 0..MaxRows}
    \cup {ScenarioCorpus, OrderCorpus}

\* A vocabulary and a label index taken from an earlier dataset: tokens 'a',
\* labels {'1': 0}.
GivenVocab == [keys |-> <<<<97>>>>, counts |-> <<1>>]
GivenLabel2idx == [l \in {<<49>>} |-> 0]

CtorArgs ==
    {[kind |-> k, max_length |-> m, vocab |-> g[1], label2idx |-> g[2]] :
        k \in Kinds, m \in 1..MaxLength,
        g \in {<<None, None>>, <<Some(GivenVocab), Some(GivenLabel2idx)>>}}

D == ds[1]
C == ctor[1]
I == item[1]

InitData ==
    /\ dpc = "raw"
    /\ corpus \in Corpora
    /\ ctor = None
    /\ ds = None
    /\ item = None

\* A dataset is constructed over the row source.
Construct ==
    /\ dpc = "raw"
    /\ \E c \in CtorArgs :
         /\ ctor' = Some(c)
         /\ ds' = Some(NewDataset(corpus, c))
    /\ dpc' = "built"
    /\ UNCHANGED <<corpus, item>>
    /\ UNCHANGED <<trainVars, clipVars>>

\* __getitem__(idx) (dataset.py:212-213, 205-210): the row is split, its text and
\* then its label field encoded.
GetItem ==
    /\ dpc = "built"
    /\ \E idx \in 0..(Len(corpus) - 1) :
         LET fields == SplitRow(corpus[idx + 1])
             tokens == PreprocessText(D, fields[1])
         IN  \E r \in PreprocessLabel(D, fields[2]) :
                item' = Some([idx |-> idx, status |-> r.status,
                              text |-> IF r.status = "ok" THEN tokens ELSE <<>>,
                              label |-> r.label])
    /\ UNCHANGED <<dpc, corpus, ctor, ds>>
    /\ UNCHANGED <<trainVars, clipVars>>

NextData ==
    \/ Construct
    \/ GetItem

InitD == InitData /\ TrainIdle /\ ClipIdle

SpecData == InitD /\ [][NextData]_vars


\* ======================================================= claims: datasets
\* The text and the label field of the row the latest __getitem__ read.
ItemText == SplitRow(corpus[I.idx + 1])[1]
ItemLabels == Split(SplitRow(corpus[I.idx + 1])[2], Pipe)

Unseen(labels) == \E i \in 1..Len(labels) : labels[i] \notin DOMAIN D.label2idx

C5_VocabTruncated ==
    (dpc = "built" /\ C.vocab = None) =>
        SeqRange(D.vocab.keys) =
            UNION {SeqRange(PreprocessText(D, SplitRow(corpus[i])[1])) :
                     i \in 1..Len(corpus)}

\* a comes before b in lexical order: a is a proper prefix of b, or they first
\* differ at a position where a has the smaller code point.
LexBefore(a, b) ==
    \E i \in 1..Len(b) :
        /\ \A j \in 1..(i - 1) : j <= Len(a) /\ a[j] = b[j]
        /\ (i = Len(a) + 1 \/ (i <= Len(a) /\ a[i] < b[i]))

CorpusLabels ==
    UNION {SeqRange(Split(SplitRow(corpus[i])[2], Pipe)) : i \in 1..Len(corpus)}

C12_OwnCorpusEncodes ==
    (/\ item # None
     /\ C.vocab = None
     /\ C.label2idx = None
     /\ D.kind \in {"SupervisedNLPDataset", "SequenceTagDataset"})
        => (I.status = "ok" /\ I.text = PreprocessText(D, ItemText))

====
